---- MODULE Spec2Model ----
(***************************************************************************)
(* A model of allennlp/commands/predict.py: the `predict` subcommand, its  *)
(* _PredictManager (constructor and run loop) and the collaborators it     *)
(* calls (Predictor, DatasetReader, lazy_groups_of, open_compressed).      *)
(***************************************************************************)
EXTENDS Integers, Sequences, FiniteSets, TLC

\* Longest input (lines of the input file, stdin lines, or reader instances).
MaxLines == 3
\* Largest --batch-size explored.
MaxBatch == 2

\* Python's None.
None == "None"

VARIABLES
    args,        \* the argparse.Namespace handed to _predict / the caller's arguments
    entry,       \* "cli": through _predict; "api": _PredictManager built by keyword
    pc,          \* position of the program
    err,         \* the exception that ended the program, if any
    exitStatus,  \* status passed to sys.exit, -1 while sys.exit was not called
    predictor,   \* the Predictor handle
    manager,     \* the fields of the _PredictManager
    gen,         \* state of the record generator run() pulls from
    openedWith,  \* compression_type handed to open_compressed
    source,      \* lines / instances read from the input so far
    batch,       \* the group lazy_groups_of is filling
    index,       \* run()'s local `index`
    console,     \* everything printed to stdout
    fileLog      \* events on the output file: open, write, close

vars == <<args, entry, pc, err, exitStatus, predictor, manager, gen, openedWith,
          source, batch, index, console, fileLog>>

----------------------------------------------------------------------------
\* Command line

\* The flags of the subparser that the manager depends on, with their domains.
ArgsSet ==
    [ input_file         : {"-", "in.jsonl"},
      output_file        : {None, "out.txt"},
      batch_size         : 1..MaxBatch,
      silent             : BOOLEAN,
      use_dataset_reader : BOOLEAN,
      compression_type   : {None, "gz"},
      multitask_head     : {None, "ner"} ]

\* What a Predictor can carry as its _dataset_reader.
DatasetReaders == {None, "DatasetReader", "MultiTaskDatasetReader"}

\* How the predictor's batch operations relate to its single-record ones:
\*   faithful: one result per record, in order, equal to the single-record result
\*   variant : one result per record, in order, but computed differently
\*   short   : the batch operation returns no result for the last record
PredictorKinds == {"faithful", "variant", "short"}

NoPredictor == [_dataset_reader |-> None, kind |-> None]

NoManager ==
    [ _input_file       |-> None,
      _output_file      |-> None,
      _batch_size       |-> 0,
      _print_to_console |-> FALSE,
      _dataset_reader   |-> None,
      compression_type  |-> None,
      _multitask_head   |-> None ]

NoError == [kind |-> None, at |-> None, msg |-> None]

ConfigurationError(at, msg) == [kind |-> "ConfigurationError", at |-> at, msg |-> msg]

OSError(at, msg) == [kind |-> "OSError", at |-> at, msg |-> msg]

----------------------------------------------------------------------------
\* Predictor (single-record and batch operations, line conversions)

\* Predictor.load_line: a JSON line becomes a JsonDict.
load_line(line) == [json |-> line.n]

\* Predictor.dump_line: a result becomes one serialized output line.
dump_line(output) == [line |-> output]

\* json.dumps(model_input_json) / str(model_input_instance)
str(model_input) == [given |-> TRUE, text |-> [repr |-> model_input]]

\* The default of the parameter model_input of _maybe_print_to_console_and_file.
NoModelInput == [given |-> FALSE, text |-> None]

\* Predictor.predict_json / Predictor.predict_instance
predict_one(kind, record) ==
    [input |-> record, via |-> IF kind = "faithful" THEN "model" ELSE "single"]

\* Predictor.predict_batch_json / Predictor.predict_batch_instance
predict_batch(kind, batch_data) ==
    LET n == IF kind = "short" THEN Len(batch_data) - 1 ELSE Len(batch_data)
    IN  [i \in 1..n |->
            [input |-> batch_data[i],
             via   |-> IF kind = "faithful" THEN "model" ELSE "batch"]]

\* isinstance(reader, MultiTaskDatasetReader)
isinstance_MultiTaskDatasetReader(reader) == reader = "MultiTaskDatasetReader"

----------------------------------------------------------------------------
\* _PredictManager

\* _PredictManager.__init__: the fields it sets and the error it raises, if any.
\* The output file is opened (line 168) before the checks.
__init__(predictor_, input_file, output_file, batch_size, print_to_console, has_dataset_reader, compression_type, multitask_head) ==
    LET self ==
            [ _input_file       |-> input_file,
              _output_file      |-> output_file,
              _batch_size       |-> batch_size,
              _print_to_console |-> print_to_console,
              _dataset_reader   |-> IF ~has_dataset_reader THEN None
                                    ELSE predictor_._dataset_reader,
              compression_type  |-> compression_type,
              _multitask_head   |-> multitask_head ]
        multi == isinstance_MultiTaskDatasetReader(self._dataset_reader)
        raised ==
            IF multitask_head # None /\ self._dataset_reader = None
            THEN ConfigurationError("__init__",
                    "You must use a dataset reader when using --multitask-head.")
            ELSE IF multitask_head # None /\ ~multi
            THEN ConfigurationError("__init__",
                    "--multitask-head only works with a multitask dataset reader.")
            ELSE IF multi /\ multitask_head = None
            THEN ConfigurationError("__init__",
                    "You must specify --multitask-head when using a multitask dataset reader.")
            ELSE NoError
    IN  [self |-> self, raised |-> raised]

\* _predict_json without its batch branch: only the first record is predicted.
_predict_json_first_only(kind, batch_data) ==
    <<dump_line(predict_one(kind, batch_data[1]))>>

\* _PredictManager._predict_json: the dumped lines for one batch.
_predict_json(kind, batch_data) ==
    LET results == IF Len(batch_data) = 1
                   THEN <<predict_one(kind, batch_data[1])>>
                   ELSE predict_batch(kind, batch_data)
    IN  [i \in 1..Len(results) |-> dump_line(results[i])]

\* _PredictManager._predict_instances: the dumped lines for one batch.
_predict_instances(kind, batch_data) ==
    LET results == IF Len(batch_data) = 1
                   THEN <<predict_one(kind, batch_data[1])>>
                   ELSE predict_batch(kind, batch_data)
    IN  [i \in 1..Len(results) |-> dump_line(results[i])]

\* Python's zip: pairs up to the shorter argument.
zip(xs, ys) ==
    LET n == IF Len(xs) <= Len(ys) THEN Len(xs) ELSE Len(ys)
    IN  [i \in 1..n |-> <<xs[i], ys[i]>>]

\* _maybe_print_to_console_and_file with `elif` for its second `if`: the file
\* is written only when nothing is printed.
_maybe_print_elif(self, index_, prediction, model_input) ==
    [ printed |-> IF self._print_to_console
                  THEN (IF model_input.given
                        THEN <<[kind |-> "input", index |-> index_, text |-> model_input.text]>>
                        ELSE <<>>)
                       \o <<[kind |-> "prediction", index |-> -1, text |-> prediction]>>
                  ELSE <<>>,
      written |-> IF ~self._print_to_console /\ self._output_file # None
                  THEN <<[op |-> "write", data |-> prediction]>>
                  ELSE <<>> ]

\* _PredictManager._maybe_print_to_console_and_file: what one call prints and
\* what it writes to the output file.
_maybe_print_to_console_and_file(self, index_, prediction, model_input) ==
    [ printed |-> IF self._print_to_console
                  THEN (IF model_input.given
                        THEN <<[kind |-> "input", index |-> index_, text |-> model_input.text]>>
                        ELSE <<>>)
                       \o <<[kind |-> "prediction", index |-> -1, text |-> prediction]>>
                  ELSE <<>>,
      written |-> IF self._output_file # None
                  THEN <<[op |-> "write", data |-> prediction]>>
                  ELSE <<>> ]

\* The inner for-loop of run(): the calls of _maybe_print_to_console_and_file
\* for the pairs of one batch, from `index_` on.
RECURSIVE emit_pairs(_, _, _)
emit_pairs(self, index_, pairs) ==
    IF pairs = <<>>
    THEN [printed |-> <<>>, written |-> <<>>]
    ELSE LET head == _maybe_print_to_console_and_file(
                        self, index_, pairs[1][2], str(pairs[1][1]))
             rest == emit_pairs(self, index_ + 1, Tail(pairs))
         IN  [printed |-> head.printed \o rest.printed,
              written |-> head.written \o rest.written]

\* _get_instance_data without its check of standard input.
_get_instance_data_no_stdin_check(self) ==
    IF self._dataset_reader = None
    THEN ConfigurationError("run", "To generate instances directly, pass a DatasetReader.")
    ELSE NoError

\* _PredictManager._get_instance_data, lines 245-248: the error raised before
\* anything is read, if any.
_get_instance_data_raises(self) ==
    IF self._input_file = "-"
    THEN ConfigurationError("run", "stdin is not an option when using a DatasetReader.")
    ELSE IF self._dataset_reader = None
    THEN ConfigurationError("run", "To generate instances directly, pass a DatasetReader.")
    ELSE NoError

\* _get_json_data whose second try block has no except clause.
_get_json_data_except_auto_only(self) ==
    [ caught  |-> self.compression_type = None,
      message |-> "Automatic detection failed, please specify the compression type argument." ]

\* _PredictManager._get_json_data, lines 230-233 and 241-242: whether an OSError
\* raised by open_compressed or by reading the file is caught, and the message.
_get_json_data_except(self) ==
    [ caught  |-> TRUE,
      message |-> IF self.compression_type = None
                  THEN "Automatic detection failed, please specify the compression type argument."
                  ELSE "please specify the correct compression type argument." ]

\* run() without its last two lines.
run_close_forgotten(self) == <<>>

\* run(), lines 276-277: the events on the output file when the loop is over.
run_close(self) ==
    IF self._output_file # None THEN <<[op |-> "close", data |-> None]>> ELSE <<>>

\* lazy_groups_of: a group is handed to the loop when it holds group_size
\* records, or when the iterator is over and the group is not empty.
lazy_groups_of_yields(group, group_size, iterator_over) ==
    /\ group # <<>>
    /\ (Len(group) >= group_size \/ iterator_over)

\* lazy_groups_of asks the iterator for another record.
lazy_groups_of_pulls(group, group_size, iterator_over) ==
    /\ ~iterator_over
    /\ Len(group) < group_size

----------------------------------------------------------------------------
\* State machine

Init ==
    /\ args \in ArgsSet
    /\ entry \in {"cli", "api"}
    /\ pc = "start"
    /\ err = NoError
    /\ exitStatus = -1
    /\ predictor = NoPredictor
    /\ manager = NoManager
    /\ gen = "unstarted"
    /\ openedWith = "unopened"
    /\ source = <<>>
    /\ batch = <<>>
    /\ index = 0
    /\ console = <<>>
    /\ fileLog = <<>>

Message(text) == [kind |-> "message", index |-> -1, text |-> text]

\* _get_predictor (line 283): check_for_gpu may raise; otherwise the archive
\* yields a predictor with whatever dataset reader the model has.
_get_predictor ==
    /\ pc = "start"
    /\ entry = "cli"
    /\ \E gpu_ok \in BOOLEAN :
        IF gpu_ok
        THEN /\ \E r \in DatasetReaders \ {None}, k \in PredictorKinds :
                    predictor' = [_dataset_reader |-> r, kind |-> k]
             /\ pc' = "loaded"
             /\ err' = err
        ELSE /\ pc' = "failed"
             /\ err' = ConfigurationError("_get_predictor", "cuda device not available")
             /\ predictor' = predictor
    /\ UNCHANGED <<args, entry, exitStatus, manager, gen, openedWith, source,
                   batch, index, console, fileLog>>

\* A caller of the class hands in a predictor it built itself.
GivenPredictor ==
    /\ pc = "start"
    /\ entry = "api"
    /\ \E r \in DatasetReaders, k \in PredictorKinds :
            predictor' = [_dataset_reader |-> r, kind |-> k]
    /\ pc' = "loaded"
    /\ UNCHANGED <<args, entry, err, exitStatus, manager, gen, openedWith, source,
                   batch, index, console, fileLog>>

\* _predict, lines 285-288.
SilentExit ==
    /\ pc = "loaded"
    /\ entry = "cli"
    /\ args.silent /\ args.output_file = None
    /\ console' = console \o << Message("--silent specified without --output-file."),
                                Message("Exiting early because no output will be created.") >>
    /\ exitStatus' = 0
    /\ pc' = "exited"
    /\ UNCHANGED <<args, entry, err, predictor, manager, gen, openedWith, source,
                   batch, index, fileLog>>

\* The effect of a constructor call on the state: open() at line 168 may fail;
\* otherwise the file is open whether or not a check raises afterwards.
Constructed(made) ==
    \E open_ok \in BOOLEAN :
        IF made.self._output_file # None /\ ~open_ok
        THEN /\ pc' = "failed"
             /\ err' = OSError("__init__", "open")
             /\ UNCHANGED <<manager, fileLog>>
        ELSE /\ fileLog' = IF made.self._output_file # None
                           THEN fileLog \o <<[op |-> "open", data |-> None]>>
                           ELSE fileLog
             /\ IF made.raised # NoError
                THEN pc' = "failed" /\ err' = made.raised /\ manager' = manager
                ELSE pc' = "constructed" /\ err' = err /\ manager' = made.self

\* _predict, lines 290-298: the arguments are passed by position.
_predict ==
    /\ pc = "loaded"
    /\ entry = "cli"
    /\ ~(args.silent /\ args.output_file = None)
    /\ Constructed(__init__(predictor, args.input_file, args.output_file,
                            args.batch_size, ~args.silent, args.use_dataset_reader,
                            args.multitask_head, None))
    /\ UNCHANGED <<args, entry, exitStatus, predictor, gen, openedWith, source,
                   batch, index, console>>

\* A caller of the class names every argument.
ConstructByKeyword ==
    /\ pc = "loaded"
    /\ entry = "api"
    /\ Constructed(__init__(predictor, args.input_file, args.output_file,
                            args.batch_size, ~args.silent, args.use_dataset_reader,
                            args.compression_type, args.multitask_head))
    /\ UNCHANGED <<args, entry, exitStatus, predictor, gen, openedWith, source,
                   batch, index, console>>

\* run(), lines 261-262.
RunBegin ==
    /\ pc = "constructed"
    /\ pc' = "running"
    /\ index' = 0
    /\ UNCHANGED <<args, entry, err, exitStatus, predictor, manager, gen, openedWith,
                   source, batch, console, fileLog>>

IteratorOver == gen \in {"exhausted", "aborted"}

NextLine(blank) == [n |-> Len(source) + 1, blank |-> blank]

\* One resumption of _get_json_data, reading sys.stdin (lines 219-221).
ReadStdin ==
    /\ pc = "running"
    /\ manager._dataset_reader = None
    /\ manager._input_file = "-"
    /\ lazy_groups_of_pulls(batch, manager._batch_size, IteratorOver)
    /\ \E ev \in {"line", "blank", "eof"} :
        /\ ev # "eof" => Len(source) < MaxLines
        /\ gen' = IF ev = "eof" THEN "exhausted" ELSE "open"
        /\ source' = IF ev = "eof" THEN source ELSE Append(source, NextLine(ev = "blank"))
        /\ batch' = IF ev = "line"
                    THEN Append(batch, load_line(NextLine(FALSE)))
                    ELSE batch
    /\ UNCHANGED <<args, entry, pc, err, exitStatus, predictor, manager, openedWith,
                   index, console, fileLog>>

\* One resumption of _get_json_data, reading a file (lines 223-242).
ReadFile ==
    /\ pc = "running"
    /\ manager._dataset_reader = None
    /\ manager._input_file # "-"
    /\ lazy_groups_of_pulls(batch, manager._batch_size, IteratorOver)
    /\ \E ev \in {"missing", "line", "blank", "eof", "OSError"} :
        /\ ev = "missing" => gen = "unstarted"
        /\ ev \in {"line", "blank"} => Len(source) < MaxLines
        /\ IF ev = "missing"
           THEN \* cached_path (line 223) is outside the try blocks
                /\ pc' = "failed"
                /\ err' = OSError("run", "cached_path")
                /\ UNCHANGED <<gen, openedWith, source, batch, console>>
           ELSE /\ openedWith' = IF manager.compression_type = None
                                 THEN "auto" ELSE manager.compression_type
                /\ IF ev = "OSError"
                   THEN IF _get_json_data_except(manager).caught
                        THEN /\ console' = console \o
                                    <<Message(_get_json_data_except(manager).message)>>
                             /\ gen' = "aborted"
                             /\ UNCHANGED <<pc, err, source, batch>>
                        ELSE /\ pc' = "failed"
                             /\ err' = OSError("run", "open_compressed")
                             /\ gen' = "aborted"
                             /\ UNCHANGED <<source, batch, console>>
                   ELSE /\ gen' = IF ev = "eof" THEN "exhausted" ELSE "open"
                        /\ source' = IF ev = "eof" THEN source
                                     ELSE Append(source, NextLine(ev = "blank"))
                        /\ batch' = IF ev = "line"
                                    THEN Append(batch, load_line(NextLine(FALSE)))
                                    ELSE batch
                        /\ UNCHANGED <<pc, err, console>>
    /\ UNCHANGED <<args, entry, exitStatus, predictor, manager, index, fileLog>>

\* One resumption of _get_instance_data (lines 245-258).
ReadInstance ==
    /\ pc = "running"
    /\ manager._dataset_reader # None
    /\ lazy_groups_of_pulls(batch, manager._batch_size, IteratorOver)
    /\ IF _get_instance_data_raises(manager) # NoError
       THEN /\ pc' = "failed"
            /\ err' = _get_instance_data_raises(manager)
            /\ UNCHANGED <<gen, source, batch>>
       ELSE /\ \E ev \in {"instance", "eof"} :
                /\ ev = "instance" => Len(source) < MaxLines
                /\ gen' = IF ev = "eof" THEN "exhausted" ELSE "open"
                /\ source' = IF ev = "eof" THEN source
                             ELSE Append(source, NextLine(FALSE))
                /\ batch' = IF ev = "eof" THEN batch
                            ELSE Append(batch,
                                   [instance |-> Len(source) + 1,
                                    task |-> IF isinstance_MultiTaskDatasetReader(
                                                    manager._dataset_reader)
                                             THEN manager._multitask_head ELSE None])
            /\ UNCHANGED <<pc, err>>
    /\ UNCHANGED <<args, entry, exitStatus, predictor, manager, openedWith, index,
                   console, fileLog>>

\* The body of the for-loops of run() for one batch.
EmitBatch(lines) ==
    LET pairs == zip(batch, lines)
        out   == emit_pairs(manager, index, pairs)
    IN  /\ console' = console \o out.printed
        /\ fileLog' = fileLog \o out.written
        /\ index' = index + Len(pairs)
        /\ batch' = <<>>

\* run(), lines 264-267.
RunInstancesBatch ==
    /\ pc = "running"
    /\ manager._dataset_reader # None
    /\ lazy_groups_of_yields(batch, manager._batch_size, IteratorOver)
    /\ EmitBatch(_predict_instances(predictor.kind, batch))
    /\ UNCHANGED <<args, entry, pc, err, exitStatus, predictor, manager, gen,
                   openedWith, source>>

\* run(), lines 269-274.
RunJsonBatch ==
    /\ pc = "running"
    /\ manager._dataset_reader = None
    /\ lazy_groups_of_yields(batch, manager._batch_size, IteratorOver)
    /\ EmitBatch(_predict_json(predictor.kind, batch))
    /\ UNCHANGED <<args, entry, pc, err, exitStatus, predictor, manager, gen,
                   openedWith, source>>

\* run(), lines 276-277, reached when the loop is over.
RunEnd ==
    /\ pc = "running"
    /\ IteratorOver
    /\ batch = <<>>
    /\ fileLog' = fileLog \o run_close(manager)
    /\ pc' = "done"
    /\ UNCHANGED <<args, entry, err, exitStatus, predictor, manager, gen, openedWith,
                   source, batch, index, console>>

Next ==
    \/ _get_predictor
    \/ GivenPredictor
    \/ SilentExit
    \/ _predict
    \/ ConstructByKeyword
    \/ RunBegin
    \/ ReadStdin
    \/ ReadFile
    \/ ReadInstance
    \/ RunInstancesBatch
    \/ RunJsonBatch
    \/ RunEnd

Spec == Init /\ [][Next]_vars

----------------------------------------------------------------------------
\* Observations

\* The prediction lines written to the output file, in order.
FileLines ==
    LET writes == SelectSeq(fileLog, LAMBDA e : e.op = "write")
    IN  [i \in 1..Len(writes) |-> writes[i].data]

\* The prediction lines printed to the console, in order.
ConsolePredictions ==
    LET preds == SelectSeq(console, LAMBDA e : e.kind = "prediction")
    IN  [i \in 1..Len(preds) |-> preds[i].text]

\* The messages printed to the console.
ConsoleMessages == {console[i].text : i \in {j \in 1..Len(console) : console[j].kind = "message"}}

\* The input records read so far: the non-blank lines as JsonDicts, or the
\* reader's instances.
Records ==
    LET kept == SelectSeq(source, LAMBDA l : ~l.blank)
    IN  [i \in 1..Len(kept) |->
            IF manager._dataset_reader = None
            THEN load_line(kept[i])
            ELSE [instance |-> kept[i].n,
                  task |-> IF isinstance_MultiTaskDatasetReader(manager._dataset_reader)
                           THEN manager._multitask_head ELSE None]]

Opens == {i \in 1..Len(fileLog) : fileLog[i].op = "open"}

Closes == {i \in 1..Len(fileLog) : fileLog[i].op = "close"}

\* The predictor returns exactly one result per record, in order.
OneResultPerRecord == predictor.kind \in {"faithful", "variant"}

\* `lines` holds one line per record read, the i-th for the i-th record.
OneLinePerRecord(lines) ==
    /\ Len(lines) = Len(Records)
    /\ \A i \in 1..Len(lines) : lines[i].line.input = Records[i]

\* What a run with batch size 1 emits for the records read: every group holds
\* one record.
BatchSizeOneLines ==
    [i \in 1..Len(Records) |->
        IF manager._dataset_reader = None
        THEN _predict_json(predictor.kind, <<Records[i]>>)[1]
        ELSE _predict_instances(predictor.kind, <<Records[i]>>)[1]]

----------------------------------------------------------------------------
\* Claims

\* C1: when run() completes with a predictor that returns exactly one result
\* per record in order, every sink in use (output file, console) holds exactly
\* one prediction line per input record read, the i-th line being the result
\* for the i-th record: nothing dropped, duplicated or reordered.
C1_OnePredictionPerRecordInOrder ==
    (pc = "done" /\ OneResultPerRecord) =>
        /\ index = Len(Records)
        /\ manager._output_file # None => OneLinePerRecord(FileLines)
        /\ manager._print_to_console => OneLinePerRecord(ConsolePredictions)

\* C1 witness: three records, batch size 2, written to the file and printed.
C1_Witness ==
    /\ pc = "done" /\ OneResultPerRecord
    /\ manager._batch_size = 2
    /\ Len(Records) = 3
    /\ manager._output_file # None /\ manager._print_to_console
    /\ Len(FileLines) = 3

\* C2: with a predictor whose batch operation gives each record the result of
\* its single-record operation, a completed run with batch size K > 1 has
\* emitted the very lines a run with batch size 1 emits for the same input.
C2_BatchSizeDoesNotChangeOutput ==
    (pc = "done" /\ predictor.kind = "faithful" /\ manager._batch_size > 1) =>
        /\ manager._output_file # None => FileLines = BatchSizeOneLines
        /\ manager._print_to_console => ConsolePredictions = BatchSizeOneLines

\* C2 witness: raw-JSON mode, batch size 2, three records (a full and a
\* one-record group).
C2_Witness ==
    /\ pc = "done" /\ predictor.kind = "faithful"
    /\ manager._batch_size = 2
    /\ manager._dataset_reader = None
    /\ Len(Records) = 3
    /\ manager._output_file # None
    /\ FileLines = BatchSizeOneLines

\* C3: with an output path, the file is not closed while run() is under way,
\* and when run() has completed it was closed exactly once, the close being
\* the last event on the file (after the last written line), also when no
\* record was processed.
C3_ClosedOnceAfterLastLine ==
    manager._output_file # None =>
        /\ pc \in {"constructed", "running"} => Closes = {}
        /\ pc = "done" =>
            /\ Cardinality(Closes) = 1
            /\ fileLog[Len(fileLog)].op = "close"

\* C3 witness: a completed run that wrote two lines and then closed the file.
C3_Witness ==
    /\ pc = "done"
    /\ manager._output_file # None
    /\ Len(FileLines) = 2
    /\ fileLog[Len(fileLog)].op = "close"

ReaderOnStdin ==
    /\ pc \in {"running", "done", "failed"}
    /\ manager._dataset_reader # None
    /\ manager._input_file = "-"

\* C5: with a dataset reader attached and input file '-', run() never reads a
\* line, never emits a prediction and never completes; its first step raises
\* the configuration error about standard input.
C5_ReaderModeRejectsStdin ==
    /\ [](ReaderOnStdin =>
            /\ source = <<>> /\ gen = "unstarted"
            /\ index = 0 /\ FileLines = <<>> /\ ConsolePredictions = <<>>
            /\ pc # "done"
            /\ pc = "failed" =>
                 err = ConfigurationError("run",
                          "stdin is not an option when using a DatasetReader."))
    /\ [][(ReaderOnStdin /\ pc = "running") => pc' = "failed"]_vars

\* C5 witness: run() has raised the error, with an output file open.
C5_Witness ==
    /\ ReaderOnStdin
    /\ pc = "failed" /\ err.kind = "ConfigurationError" /\ err.at = "run"
    /\ manager._output_file # None

\* The record stream of raw-JSON mode was ended by an OSError.
StreamAborted == manager._dataset_reader = None /\ gen = "aborted"

\* C9: in raw-JSON mode an OSError from opening or reading the input file
\* does not propagate: a message is printed, no further line is read, run()
\* goes on to completion, where the output file is closed and (for a predictor
\* returning one result per record) the sinks hold the predictions of exactly
\* the records read before the failure, in order.
C9_ReadFailureEndsStreamQuietly ==
    /\ [](StreamAborted =>
            /\ pc \in {"running", "done"}
            /\ err = NoError
            /\ ConsoleMessages # {}
            /\ pc = "done" =>
                /\ manager._output_file # None =>
                        Closes # {} /\ fileLog[Len(fileLog)].op = "close"
                /\ OneResultPerRecord =>
                    /\ manager._output_file # None => OneLinePerRecord(FileLines)
                    /\ manager._print_to_console => OneLinePerRecord(ConsolePredictions))
    /\ [][StreamAborted => (source' = source /\ gen' = gen)]_vars

\* C9 witness: the read failed after two records with an explicit compression
\* type; both were predicted and the file was closed.
C9_Witness ==
    /\ StreamAborted /\ pc = "done"
    /\ manager.compression_type # None
    /\ Len(Records) = 2
    /\ Len(FileLines) = 2
    /\ fileLog[Len(fileLog)].op = "close"

\* C4: through the command line, --multitask-head with an absent or
\* non-multitask dataset reader never yields a constructed manager: the
\* constructor raises a configuration error and nothing is read.
C4_HeadWithoutMultitaskReaderFails ==
    ( /\ entry = "cli"
      /\ args.multitask_head # None
      /\ \/ ~args.use_dataset_reader
         \/ ~isinstance_MultiTaskDatasetReader(predictor._dataset_reader)
      /\ pc \notin {"start", "loaded", "exited"} )
    => /\ pc = "failed"
       /\ err.kind = "ConfigurationError"
       /\ source = <<>>

\* C6: through the command line, --silent without --output-file ends in
\* sys.exit(0) without an error, with no manager built, nothing read and no
\* prediction emitted.
C6_SilentWithoutOutputExitsCleanly ==
    ( /\ entry = "cli"
      /\ args.silent /\ args.output_file = None
      /\ pc \notin {"start", "loaded"} )
    => /\ pc = "exited"
       /\ exitStatus = 0
       /\ err = NoError
       /\ manager = NoManager
       /\ source = <<>>
       /\ ConsolePredictions = <<>> /\ FileLines = <<>>

\* C7: the manager built by the command line has the compression type given
\* by --compression-type, and raw-JSON input is opened with it (automatic
\* detection when the flag is omitted).
C7_CompressionTypeFromFlag ==
    (entry = "cli" /\ pc \in {"constructed", "running", "done"}) =>
        /\ manager.compression_type = args.compression_type
        /\ openedWith # "unopened" =>
              openedWith = IF args.compression_type = None
                           THEN "auto" ELSE args.compression_type

\* C8: when the dataset-reader flag is set and the predictor has no dataset
\* reader, a started run() reads nothing as raw JSON, emits nothing and never
\* completes normally.
C8_ReaderRequestedButMissingFails ==
    ( /\ args.use_dataset_reader
      /\ predictor._dataset_reader = None
      /\ pc \in {"running", "done", "failed"}
      /\ manager # NoManager )
    => /\ source = <<>>
       /\ pc # "done"
       /\ ConsolePredictions = <<>> /\ FileLines = <<>>

\* C10: in every terminal state (run() completed, the constructor raised a
\* configuration error, run() raised a configuration error) an output file
\* that was opened has been closed.
C10_OpenedSinkIsClosed ==
    ( \/ pc = "done"
      \/ /\ pc = "failed"
         /\ err.kind = "ConfigurationError"
         /\ err.at \in {"__init__", "run"} )
    => (Opens # {} => (Closes # {} /\ fileLog[Len(fileLog)].op = "close"))

====
